---- MODULE Spec2Model ----
(***************************************************************************)
(* CDatabaseWeb (src/storage/web/DatabaseWeb.cpp): the background worker   *)
(* that pulls button maps from the remote repository and pushes local      *)
(* edits to it, and the two caller-facing operations that feed its queues. *)
(*                                                                         *)
(* Every block of the code that runs under CLockObject lock(m_mutex) is    *)
(* one action; the code between two such blocks is an action of its own,   *)
(* so callers interleave with the worker exactly where m_mutex is free.    *)
(* Time is kept as the number of milliseconds each running timer still has *)
(* left; Tick lets the clock advance.                                      *)
(***************************************************************************)
EXTENDS Integers, Sequences, FiniteSets, TLC

\* #define UPDATE_DELAY_SEC 30
UPDATE_DELAY_SEC == 30

\* number of thread slots the thread primitive could hand out
MaxThreads == 2
\* number of GetFeatures / MapFeature calls in one run
MaxCalls == 3
\* milliseconds by which one Tick advances the clock
TickMs == 15000

\* a default-constructed CDevice (CDevice request; at l.66)
DefaultDevice == ""
Devices == {DefaultDevice, "Keyboard", "Gamepad"}
Controllers == {"nes", "snes"}
Threads == 1..MaxThreads

\* CDevice::IsValid: a device without a name is not valid
IsValid(device) == device # DefaultDevice

\* a default-constructed UpdateJob (UpdateJob update; at l.67)
DefaultJob == <<DefaultDevice, "">>

VARIABLES
  m_requestQueue,   \* std::vector<CDevice>
  m_updateQueue,    \* std::vector<UpdateJob>
  m_updateTimeout,  \* CTimeout, as the value TimeLeft() returns now (ms)
  m_idleEvent,      \* CEvent: TRUE when signalled and not yet consumed
  m_mutex,          \* CMutex: the thread holding it between two steps, 0: free
  m_bRunning,       \* the thread primitive's "a thread is running" flag
  m_devices,        \* CDatabase::m_devices, the known devices (identities)
  pc,               \* per thread slot: where the thread is in Process
  request,          \* per thread: CDevice request (l.66)
  update,           \* per thread: UpdateJob update (l.67)
  waitLeft,         \* per thread: ms left of m_idleEvent.Wait(timeLeft)
  inspected,        \* per thread: TRUE iff the request queue had no valid
                    \* front entry when the thread last held m_mutex
  worked,           \* per thread: an entry was processed in this iteration
  nfetch,           \* per device: OpenFile calls made for its queued pull
  response,         \* the response the pull in progress / just done read
  pullLog,          \* calls made by the pull in progress / just done
  pushLog,          \* calls made by the push just done
  unsent,           \* the (device, controllerId) pairs with an accepted edit
                    \* that no push started since has picked up
  ncalls,           \* number of caller operations so far
  lastCall          \* the most recent caller operation and what it returned

vars == <<m_requestQueue, m_updateQueue, m_updateTimeout, m_idleEvent,
          m_bRunning, m_devices, pc, request, update, waitLeft, inspected,
          worked, nfetch, response, pullLog, pushLog, ncalls, lastCall,
          m_mutex, unsent>>

shared == <<m_requestQueue, m_updateQueue, m_updateTimeout, m_idleEvent>>
locals == <<request, update, waitLeft, inspected, worked>>
ghosts == <<nfetch, response, pullLog, pushLog>>
calls  == <<ncalls, lastCall>>

----------------------------------------------------------------------------
\* helpers

Max0(n) == IF n > 0 THEN n ELSE 0

Contains(queue, x) == \E i \in 1..Len(queue) : queue[i] = x

\* std::vector::erase(begin())
EraseBegin(queue) == IF queue = <<>> THEN <<>> ELSE Tail(queue)

\* m_updateTimeout.TimeLeft()
TimeLeft == m_updateTimeout

NoValidFront(queue) == queue = <<>> \/ ~IsValid(Head(queue))

NoResponse == [open |-> FALSE, read |-> FALSE, parse |-> FALSE,
               root |-> "none", children |-> FALSE, deserialize |-> FALSE,
               device |-> DefaultDevice, changed |-> FALSE]

\* what the remote can answer to a pull, one representative per path of
\* ProcessRequest: root is the tag of the root element ("none": no root)
GoodResponse(device, changed) ==
  [open |-> TRUE, read |-> TRUE, parse |-> TRUE, root |-> "device",
   children |-> TRUE, deserialize |-> TRUE, device |-> device,
   changed |-> changed]

Responses ==
  { [GoodResponse("Keyboard", FALSE) EXCEPT !.open = FALSE],
    [GoodResponse("Keyboard", FALSE) EXCEPT !.read = FALSE],
    [GoodResponse("Keyboard", FALSE) EXCEPT !.parse = FALSE],
    [GoodResponse("Keyboard", FALSE) EXCEPT !.root = "none"],
    [GoodResponse("Keyboard", FALSE) EXCEPT !.children = FALSE],
    [GoodResponse("Keyboard", FALSE) EXCEPT !.root = "html"],
    [GoodResponse("Keyboard", FALSE) EXCEPT !.deserialize = FALSE] }
  \cup { GoodResponse(d, ch) : d \in Devices, ch \in BOOLEAN }

\* the places of Process whose step runs under CLockObject lock(m_mutex):
\* l.70, l.84, l.93
LockedLocations == {"snapshot", "eraseRequest", "eraseUpdate"}

\* the CLockObject outlives the block it was declared in
MutexKeptAfterScope(t, location) == t

\* who holds m_mutex once thread t has left the block entered at location:
\* the CLockObject is destroyed at the closing brace (l.79, l.88, l.95), at
\* the break (l.72) and at the continue (l.87)
MutexAfterScope(t, location) == 0

----------------------------------------------------------------------------
Init ==
  /\ m_requestQueue = <<>>
  /\ m_updateQueue = <<>>
  /\ m_updateTimeout = 0
  /\ m_idleEvent = FALSE
  /\ m_bRunning = FALSE
  /\ m_devices = {}
  /\ pc = [t \in Threads |-> "idle"]
  /\ request = [t \in Threads |-> DefaultDevice]
  /\ update = [t \in Threads |-> DefaultJob]
  /\ waitLeft = [t \in Threads |-> 0]
  /\ inspected = [t \in Threads |-> TRUE]
  /\ worked = [t \in Threads |-> FALSE]
  /\ nfetch = [d \in Devices |-> 0]
  /\ response = NoResponse
  /\ pullLog = <<>>
  /\ pushLog = <<>>
  /\ ncalls = 0
  /\ m_mutex = 0
  /\ unsent = {}
  /\ lastCall = [op |-> "none", needle |-> DefaultDevice, accepted |-> FALSE,
                 appended |-> FALSE, ret |-> FALSE]

----------------------------------------------------------------------------
\* the thread primitive

\* CreateThread started although a thread is marked running
CreateThreadAlways ==
  IF \E t \in Threads : pc[t] = "idle"
  THEN LET t == CHOOSE t \in Threads :
                  pc[t] = "idle" /\ \A u \in Threads : pc[u] = "idle" => t <= u
       IN /\ pc' = [pc EXCEPT ![t] = "snapshot"]
          /\ m_bRunning' = TRUE
  ELSE UNCHANGED <<pc, m_bRunning>>

\* CreateThread(false): start a thread running Process unless one is marked
\* running; the new thread is marked running from its creation on
CreateThread ==
  IF ~m_bRunning /\ \E t \in Threads : pc[t] = "idle"
  THEN LET t == CHOOSE t \in Threads :
                  pc[t] = "idle" /\ \A u \in Threads : pc[u] = "idle" => t <= u
       IN /\ pc' = [pc EXCEPT ![t] = "snapshot"]
          /\ m_bRunning' = TRUE
  ELSE UNCHANGED <<pc, m_bRunning>>

\* Process has returned: the thread is marked not running as its last action
ThreadReturn(t) ==
  /\ pc[t] = "exit"
  /\ pc' = [pc EXCEPT ![t] = "idle"]
  /\ m_bRunning' = FALSE
  /\ UNCHANGED <<shared, m_devices, locals, ghosts, calls>>
  /\ UNCHANGED <<m_mutex, unsent>>

----------------------------------------------------------------------------
\* Process, l.62-103

\* the snapshot peeks the back of the request queue
SnapshotRequestBack(queue) ==
  IF queue # <<>> THEN queue[Len(queue)] ELSE DefaultDevice

\* l.74-75: if (!m_requestQueue.empty()) request = m_requestQueue[0];
SnapshotRequest(queue) ==
  IF queue # <<>> THEN queue[1] ELSE DefaultDevice

\* l.77-78: if (!m_updateQueue.empty() && m_updateTimeout.TimeLeft() == 0)
\*            update = m_updateQueue[0];
SnapshotUpdate(queue, timeLeft) ==
  IF queue # <<>> /\ timeLeft = 0 THEN queue[1] ELSE DefaultJob

\* l.69-79: the locked block at the top of the loop
Snapshot(t) ==
  /\ pc[t] = "snapshot"
  /\ m_mutex \in {0, t}
  /\ IF m_requestQueue = <<>> /\ m_updateQueue = <<>>
     THEN /\ pc' = [pc EXCEPT ![t] = "exit"]
          /\ request' = [request EXCEPT ![t] = DefaultDevice]
          /\ update' = [update EXCEPT ![t] = DefaultJob]
     ELSE /\ pc' = [pc EXCEPT ![t] = "request"]
          /\ request' = [request EXCEPT ![t] = SnapshotRequest(m_requestQueue)]
          /\ update' = [update EXCEPT
                          ![t] = SnapshotUpdate(m_updateQueue, TimeLeft)]
  /\ inspected' = [inspected EXCEPT ![t] = NoValidFront(m_requestQueue)]
  /\ worked' = [worked EXCEPT ![t] = FALSE]
  /\ UNCHANGED <<shared, m_bRunning, m_devices, waitLeft, ghosts, calls>>
  /\ m_mutex' = MutexAfterScope(t, pc[t])
  /\ UNCHANGED unsent

\* ProcessRequest without the check of the root element's tag
ProcessRequestCallsNoTagCheck(resp) ==
  IF resp.open /\ resp.read
  THEN IF ~resp.parse THEN <<>>
       ELSE IF resp.root = "none" \/ ~resp.children THEN <<>>
       ELSE IF ~resp.deserialize THEN <<>>
       ELSE IF ~IsValid(resp.device) THEN <<>>
       ELSE <<  <<"CDatabase::MergeDevice", resp.device>>,
                <<"m_userXml->MergeDevice", resp.device>> >>
            \o (IF resp.changed
                THEN << <<"RefreshButtonMaps", resp.device>> >>
                ELSE <<>>)
  ELSE <<>>

\* ProcessRequest refreshing whatever the user merge returned
ProcessRequestCallsAlwaysRefresh(resp) ==
  IF resp.open /\ resp.read
  THEN IF ~resp.parse THEN <<>>
       ELSE IF resp.root = "none" \/ ~resp.children \/ resp.root # "device"
       THEN <<>>
       ELSE IF ~resp.deserialize THEN <<>>
       ELSE IF ~IsValid(resp.device) THEN <<>>
       ELSE <<  <<"CDatabase::MergeDevice", resp.device>>,
                <<"m_userXml->MergeDevice", resp.device>>,
                <<"RefreshButtonMaps", resp.device>> >>
  ELSE <<>>

\* l.135-166: what ProcessRequest calls after OpenFile, given what it read
ProcessRequestCalls(resp) ==
  IF resp.open /\ resp.read
  THEN IF ~resp.parse THEN <<>>
       ELSE IF resp.root = "none" \/ ~resp.children \/ resp.root # "device"
       THEN <<>>
       ELSE IF ~resp.deserialize THEN <<>>
       ELSE IF ~IsValid(resp.device) THEN <<>>
       ELSE <<  <<"CDatabase::MergeDevice", resp.device>>,
                <<"m_userXml->MergeDevice", resp.device>> >>
            \o (IF resp.changed
                THEN << <<"RefreshButtonMaps", resp.device>> >>
                ELSE <<>>)
  ELSE <<>>

\* CDatabase::MergeDevice: the merged device becomes a known device
MergeDevice(devices, calls_) ==
  devices \cup { calls_[i][2] : i \in { j \in 1..Len(calls_) :
                                   calls_[j][1] = "CDatabase::MergeDevice" } }

\* l.81-83 and l.105-135: the pull starts, the URL is opened
ProcessRequestBegin(t) ==
  /\ pc[t] = "request"
  /\ IF IsValid(request[t])
     THEN /\ pc' = [pc EXCEPT ![t] = "fetch"]
          /\ nfetch' = [nfetch EXCEPT ![request[t]] = @ + 1]
          /\ pullLog' = << <<"OpenFile", request[t]>> >>
          /\ response' = NoResponse
     ELSE /\ pc' = [pc EXCEPT ![t] = "update"]
          /\ UNCHANGED <<nfetch, pullLog, response>>
  /\ UNCHANGED <<shared, m_bRunning, m_devices, locals, pushLog, calls>>
  /\ UNCHANGED <<m_mutex, unsent>>

\* l.136-167: the response is read, parsed, validated and merged
ProcessRequestEnd(t) ==
  /\ pc[t] = "fetch"
  /\ \E resp \in Responses :
       /\ response' = resp
       /\ pullLog' = pullLog \o ProcessRequestCalls(resp)
       /\ m_devices' = MergeDevice(m_devices, ProcessRequestCalls(resp))
  /\ worked' = [worked EXCEPT ![t] = TRUE]
  /\ pc' = [pc EXCEPT ![t] = "eraseRequest"]
  /\ UNCHANGED <<shared, m_bRunning, request, update, waitLeft, inspected,
                 nfetch, pushLog, calls>>
  /\ UNCHANGED <<m_mutex, unsent>>

\* the loop without the continue after a pull
AfterEraseRequestNoContinue(queue) == "update"

\* l.86-87: if (!m_requestQueue.empty()) continue;
AfterEraseRequest(queue) ==
  IF queue # <<>> THEN "snapshot" ELSE "update"

\* l.84-88: the locked block after the pull
EraseRequest(t) ==
  /\ pc[t] = "eraseRequest"
  /\ m_mutex \in {0, t}
  /\ m_requestQueue' = EraseBegin(m_requestQueue)
  /\ inspected' = [inspected EXCEPT ![t] = NoValidFront(m_requestQueue')]
  /\ nfetch' = IF m_requestQueue = <<>> THEN nfetch
               ELSE [nfetch EXCEPT ![Head(m_requestQueue)] = 0]
  /\ response' = NoResponse
  /\ pullLog' = <<>>
  /\ pc' = [pc EXCEPT ![t] = AfterEraseRequest(m_requestQueue')]
  /\ UNCHANGED <<m_updateQueue, m_updateTimeout, m_idleEvent, m_bRunning,
                 m_devices, request, update, waitLeft, worked, pushLog, calls>>
  /\ m_mutex' = MutexAfterScope(t, pc[t])
  /\ UNCHANGED unsent

\* ProcessUpdate without the lookup in m_devices
ProcessUpdateCallsNoLookup(devices, needle, strControllerId) ==
  << <<"OpenFile", needle, strControllerId>> >>

\* l.171-191: what ProcessUpdate calls; the answer is only logged
ProcessUpdateCalls(devices, needle, strControllerId) ==
  IF needle \in devices
  THEN << <<"OpenFile", needle, strControllerId>> >>
  ELSE <<>>

\* l.90-92: the push starts
ProcessUpdate(t) ==
  /\ pc[t] = "update"
  /\ IF IsValid(update[t][1])
     THEN /\ pc' = [pc EXCEPT ![t] = "eraseUpdate"]
          /\ pushLog' = ProcessUpdateCalls(m_devices, update[t][1], update[t][2])
          /\ worked' = [worked EXCEPT ![t] = TRUE]
     ELSE /\ pc' = [pc EXCEPT ![t] = "timeLeft"]
          /\ UNCHANGED <<pushLog, worked>>
  /\ UNCHANGED <<shared, m_bRunning, m_devices, request, update, waitLeft,
                 inspected, nfetch, response, pullLog, calls>>
  /\ unsent' = IF IsValid(update[t][1]) THEN unsent \ {update[t]} ELSE unsent
  /\ UNCHANGED m_mutex

\* l.93-95: the locked block after the push
EraseUpdate(t) ==
  /\ pc[t] = "eraseUpdate"
  /\ m_mutex \in {0, t}
  /\ m_updateQueue' = EraseBegin(m_updateQueue)
  /\ pushLog' = <<>>
  /\ pc' = [pc EXCEPT ![t] = "timeLeft"]
  /\ UNCHANGED <<m_requestQueue, m_updateTimeout, m_idleEvent, m_bRunning,
                 m_devices, locals, nfetch, response, pullLog, calls>>
  /\ m_mutex' = MutexAfterScope(t, pc[t])
  /\ UNCHANGED unsent

\* l.97-99: uint32_t timeLeft = m_updateTimeout.TimeLeft();
\*          if (timeLeft > 0) m_idleEvent.Wait(timeLeft);
ReadTimeLeft(t) ==
  /\ pc[t] = "timeLeft"
  /\ IF TimeLeft > 0
     THEN /\ pc' = [pc EXCEPT ![t] = "wait"]
          /\ waitLeft' = [waitLeft EXCEPT ![t] = TimeLeft]
     ELSE /\ pc' = [pc EXCEPT ![t] = "snapshot"]
          /\ UNCHANGED waitLeft
  /\ UNCHANGED <<shared, m_bRunning, m_devices, request, update, inspected,
                 worked, ghosts, calls>>
  /\ UNCHANGED <<m_mutex, unsent>>

\* m_idleEvent.Wait(timeLeft) returns: the event was signalled (the signal
\* is consumed) or the time is up
WaitReturn(t) ==
  /\ pc[t] = "wait"
  /\ m_idleEvent \/ waitLeft[t] = 0
  /\ m_idleEvent' = FALSE
  /\ waitLeft' = [waitLeft EXCEPT ![t] = 0]
  /\ pc' = [pc EXCEPT ![t] = "snapshot"]
  /\ UNCHANGED <<m_requestQueue, m_updateQueue, m_updateTimeout, m_bRunning,
                 m_devices, request, update, inspected, worked, ghosts, calls>>
  /\ UNCHANGED <<m_mutex, unsent>>

----------------------------------------------------------------------------
\* the caller-facing operations

\* GetFeatures appending without the std::find
EnqueueRequestAlways(queue, needle) == Append(queue, needle)

\* l.199-201: append needle unless an equal device is queued
EnqueueRequest(queue, needle) ==
  IF ~Contains(queue, needle) THEN Append(queue, needle) ELSE queue

\* l.194-207
GetFeatures(needle) ==
  /\ ncalls < MaxCalls
  /\ m_mutex = 0
  /\ m_requestQueue' = EnqueueRequest(m_requestQueue, needle)
  /\ IF m_requestQueue' # m_requestQueue
     THEN /\ m_idleEvent' = TRUE
          /\ CreateThread
     ELSE UNCHANGED <<m_idleEvent, pc, m_bRunning>>
  /\ ncalls' = ncalls + 1
  /\ lastCall' = [op |-> "GetFeatures", needle |-> needle, accepted |-> FALSE,
                  appended |-> m_requestQueue' # m_requestQueue, ret |-> FALSE]
  /\ UNCHANGED <<m_updateQueue, m_updateTimeout, m_devices, locals, ghosts>>
  /\ UNCHANGED <<m_mutex, unsent>>

\* l.218-221: append (needle, strControllerId) unless an equal pair is queued
EnqueueUpdate(queue, updatePair) ==
  IF ~Contains(queue, updatePair) THEN Append(queue, updatePair) ELSE queue

\* l.216: m_updateTimeout.Init(UPDATE_DELAY_SEC * 1000);
TimeoutInit(timeout) == UPDATE_DELAY_SEC * 1000

\* MapFeature returning what CDatabase::MapFeature returned
MapFeatureReturnAccepted(accepted) == accepted

\* l.227: return false;
MapFeatureReturn(accepted) == FALSE

\* MapFeature with m_updateTimeout.Init moved into the branch that appends
MapFeatureInitOnAppend(needle, strControllerId, accepted) ==
  /\ ncalls < MaxCalls
  /\ m_mutex = 0
  /\ IF accepted
     THEN /\ m_updateQueue' =
               EnqueueUpdate(m_updateQueue, <<needle, strControllerId>>)
          /\ IF m_updateQueue' # m_updateQueue
             THEN /\ m_updateTimeout' = TimeoutInit(m_updateTimeout)
                  /\ m_idleEvent' = TRUE
                  /\ CreateThread
             ELSE UNCHANGED <<m_updateTimeout, m_idleEvent, pc, m_bRunning>>
     ELSE UNCHANGED <<m_updateTimeout, m_updateQueue, m_idleEvent, pc,
                      m_bRunning>>
  /\ ncalls' = ncalls + 1
  /\ lastCall' = [op |-> "MapFeature", needle |-> needle, accepted |-> accepted,
                  appended |-> m_updateQueue' # m_updateQueue,
                  ret |-> MapFeatureReturn(accepted)]
  /\ UNCHANGED <<m_requestQueue, m_devices, locals, ghosts>>
  /\ unsent' = IF accepted THEN unsent \cup {<<needle, strControllerId>>}
                         ELSE unsent
  /\ UNCHANGED m_mutex

\* l.209-228; accepted is what CDatabase::MapFeature returned
MapFeature(needle, strControllerId, accepted) ==
  /\ ncalls < MaxCalls
  /\ m_mutex = 0
  /\ IF accepted
     THEN /\ m_updateTimeout' = TimeoutInit(m_updateTimeout)
          /\ m_updateQueue' =
               EnqueueUpdate(m_updateQueue, <<needle, strControllerId>>)
          /\ IF m_updateQueue' # m_updateQueue
             THEN /\ m_idleEvent' = TRUE
                  /\ CreateThread
             ELSE UNCHANGED <<m_idleEvent, pc, m_bRunning>>
     ELSE UNCHANGED <<m_updateTimeout, m_updateQueue, m_idleEvent, pc,
                      m_bRunning>>
  /\ ncalls' = ncalls + 1
  /\ lastCall' = [op |-> "MapFeature", needle |-> needle, accepted |-> accepted,
                  appended |-> m_updateQueue' # m_updateQueue,
                  ret |-> MapFeatureReturn(accepted)]
  /\ UNCHANGED <<m_requestQueue, m_devices, locals, ghosts>>
  /\ unsent' = IF accepted THEN unsent \cup {<<needle, strControllerId>>}
                         ELSE unsent
  /\ UNCHANGED m_mutex

\* the clock advances by TickMs
Tick ==
  /\ m_updateTimeout' = Max0(m_updateTimeout - TickMs)
  /\ waitLeft' = [t \in Threads |-> Max0(waitLeft[t] - TickMs)]
  /\ UNCHANGED <<m_requestQueue, m_updateQueue, m_idleEvent, m_bRunning,
                 m_devices, pc, request, update, inspected, worked, ghosts,
                 calls>>
  /\ UNCHANGED <<m_mutex, unsent>>

----------------------------------------------------------------------------
Next ==
  \/ \E t \in Threads : Snapshot(t)
  \/ \E t \in Threads : ProcessRequestBegin(t)
  \/ \E t \in Threads : ProcessRequestEnd(t)
  \/ \E t \in Threads : EraseRequest(t)
  \/ \E t \in Threads : ProcessUpdate(t)
  \/ \E t \in Threads : EraseUpdate(t)
  \/ \E t \in Threads : ReadTimeLeft(t)
  \/ \E t \in Threads : WaitReturn(t)
  \/ \E t \in Threads : ThreadReturn(t)
  \/ \E needle \in Devices : GetFeatures(needle)
  \/ \E needle \in Devices, strControllerId \in Controllers,
        accepted \in BOOLEAN : MapFeature(needle, strControllerId, accepted)
  \/ Tick

Spec == Init /\ [][Next]_vars

TypeOK ==
  /\ m_updateTimeout \in 0..(UPDATE_DELAY_SEC * 1000)
  /\ m_devices \subseteq Devices
  /\ ncalls \in 0..MaxCalls

----------------------------------------------------------------------------
\* vocabulary of the properties

Active(t) == pc[t] # "idle"

Unique(queue) ==
  \A i, j \in 1..Len(queue) : i # j => queue[i] # queue[j]

\* the thread t starts a push (calls ProcessUpdate) in this step
PushStarts(t) == pc[t] = "update" /\ pc'[t] = "eraseUpdate"

\* the step is a call of GetFeatures or MapFeature
CallStep == ncalls' = ncalls + 1

\* the pull that read resp failed at some step of ProcessRequest
Failed(resp) ==
  ~(/\ resp.open /\ resp.read /\ resp.parse
    /\ resp.root = "device" /\ resp.children
    /\ resp.deserialize /\ IsValid(resp.device))

----------------------------------------------------------------------------
\* C1: in every reachable state at most one worker thread is active
\* (created and not yet returned from Process), whatever the interleaving
\* of GetFeatures and MapFeature calls; a start attempt made while a worker
\* is active creates no second thread.
AtMostOneWorker == Cardinality({t \in Threads : Active(t)}) <= 1

\* two appending calls, the second made while the thread the first one
\* started was active, and still one thread
SecondStartWhileActive ==
  /\ ncalls = 2
  /\ Len(m_requestQueue) + Len(m_updateQueue) = 2
  /\ Cardinality({t \in Threads : Active(t)}) = 1

\* C2: no enqueue is lost: an appended entry is processed without a further
\* enqueue being needed, so no state has an entry queued and no worker
\* thread active to process it.
NoEnqueueLost ==
  (\A t \in Threads : ~Active(t))
     => (m_requestQueue = <<>> /\ m_updateQueue = <<>>)

\* C3: no push starts while the debounce deadline still has time left.
PushOnlyAfterDeadline ==
  [][\A t \in Threads : PushStarts(t) => TimeLeft = 0]_vars

OnePullPerDevice ==
  /\ Unique(m_requestQueue)
  /\ \A d \in Devices :
       /\ nfetch[d] <= 1
       /\ nfetch[d] = 1 => (m_requestQueue # <<>> /\ Head(m_requestQueue) = d)
  /\ \A t \in Threads :
       pc[t] = "eraseRequest" =>
         /\ m_requestQueue # <<>>
         /\ nfetch[Head(m_requestQueue)] = 1

\* GetFeatures was called again for the device whose pull is in progress and
\* appended nothing
DuplicateGetFeaturesDuringPull ==
  \E t \in Threads :
    /\ pc[t] \in {"fetch", "eraseRequest"}
    /\ lastCall.op = "GetFeatures"
    /\ lastCall.needle = request[t]
    /\ ~lastCall.appended
    /\ m_requestQueue = <<request[t]>>
    /\ nfetch[request[t]] = 1

\* C6: the update queue never holds two equal (device, controllerId) pairs,
\* and every accepted MapFeature call sets the deadline to 30 s from now,
\* whether or not it appends an entry.
OnePushPerKeyAndDeadlineReset ==
  /\ []Unique(m_updateQueue)
  /\ [][(CallStep /\ lastCall'.op = "MapFeature" /\ lastCall'.accepted)
          => m_updateTimeout' = UPDATE_DELAY_SEC * 1000]_vars

\* an accepted MapFeature for a key already queued: nothing appended, the
\* deadline is at its full 30 s
DuplicateMapFeatureResetsDeadline ==
  /\ lastCall.op = "MapFeature"
  /\ lastCall.accepted
  /\ ~lastCall.appended
  /\ m_updateQueue # <<>>
  /\ m_updateTimeout = UPDATE_DELAY_SEC * 1000

\* C7: each queue is drained in FIFO order and each entry is attempted once
\* before it is removed: a queue changes only by an append at its back or by
\* the worker erasing its front, the erased entry is the one the worker has
\* just processed, and every processed entry is erased.
FifoDrain ==
  [][/\ m_requestQueue' # m_requestQueue =>
          \/ \E d \in Devices : m_requestQueue' = Append(m_requestQueue, d)
          \/ \E t \in Threads :
               /\ pc[t] = "eraseRequest"
               /\ m_requestQueue # <<>>
               /\ Head(m_requestQueue) = request[t]
               /\ nfetch[request[t]] = 1
               /\ m_requestQueue' = Tail(m_requestQueue)
     /\ m_updateQueue' # m_updateQueue =>
          \/ \E d \in Devices, c \in Controllers :
               m_updateQueue' = Append(m_updateQueue, <<d, c>>)
          \/ \E t \in Threads :
               /\ pc[t] = "eraseUpdate"
               /\ m_updateQueue # <<>>
               /\ Head(m_updateQueue) = update[t]
               /\ worked[t]
               /\ m_updateQueue' = Tail(m_updateQueue)
     /\ \A t \in Threads :
          /\ (pc[t] = "eraseRequest" /\ pc'[t] # "eraseRequest")
                => m_requestQueue' # m_requestQueue
          /\ (pc[t] = "eraseUpdate" /\ pc'[t] # "eraseUpdate")
                => m_updateQueue' # m_updateQueue
    ]_vars

\* the worker has processed the front pull and is about to erase it, with
\* another pull queued behind it
ErasingFrontOfTwo ==
  \E t \in Threads :
    /\ pc[t] = "eraseRequest"
    /\ Len(m_requestQueue) = 2
    /\ Head(m_requestQueue) = request[t]

\* C8: the worker thread returns only with both queues empty, and it never
\* goes round its loop without having processed an entry or blocked in the
\* timed wait.
IdleOnlyWhenDrainedNoBusyWait ==
  [][\A t \in Threads :
       /\ (pc[t] = "exit" /\ pc'[t] = "idle")
            => (m_requestQueue' = <<>> /\ m_updateQueue' = <<>>)
       /\ (pc[t] = "timeLeft" /\ pc'[t] = "snapshot") => worked[t]
    ]_vars

\* C9: a pull that fails at any step merges nothing into a store and sends
\* no refresh; its entry is still erased and the worker goes on: to the next
\* pull if one is queued, else to the push part of the iteration.
FailedPullIsDiscarded ==
  [][\A t \in Threads :
       /\ (pc[t] = "fetch" /\ pc'[t] = "eraseRequest" /\ Failed(response'))
            => /\ pullLog' = << <<"OpenFile", request[t]>> >>
               /\ m_devices' = m_devices
       /\ (pc[t] = "eraseRequest" /\ pc'[t] # "eraseRequest"
             /\ Failed(response))
            => /\ m_requestQueue # <<>>
               /\ m_requestQueue' = Tail(m_requestQueue)
               /\ pc'[t] = IF m_requestQueue' # <<>> THEN "snapshot"
                                                     ELSE "update"
    ]_vars

\* a pull whose response had the wrong root tag is done, with another pull
\* queued behind it
WrongRootPullDone ==
  \E t \in Threads :
    /\ pc[t] = "eraseRequest"
    /\ response.open /\ response.read /\ response.parse
    /\ response.root = "html"
    /\ Len(m_requestQueue) = 2

\* C10: a pull whose fetch, parse and validation succeed calls the shared
\* merge and then the user merge once each, and RefreshButtonMaps(name) iff
\* the user merge reported a change; a refresh is only ever sent right after
\* a user merge.
MergeOnceRefreshIffChanged ==
  /\ \A t \in Threads :
       (pc[t] = "eraseRequest" /\ ~Failed(response)) =>
          pullLog = <<  <<"OpenFile", request[t]>>,
                        <<"CDatabase::MergeDevice", response.device>>,
                        <<"m_userXml->MergeDevice", response.device>> >>
                    \o (IF response.changed
                        THEN << <<"RefreshButtonMaps", response.device>> >>
                        ELSE <<>>)
  /\ \A i \in 1..Len(pullLog) :
       pullLog[i][1] = "RefreshButtonMaps" =>
          /\ i > 1
          /\ pullLog[i - 1] = <<"m_userXml->MergeDevice", pullLog[i][2]>>

\* a successful pull whose user merge reported a change has sent the refresh
ChangedPullRefreshed ==
  \E t \in Threads :
    /\ pc[t] = "eraseRequest"
    /\ ~Failed(response)
    /\ response.changed
    /\ Len(pullLog) = 4

----------------------------------------------------------------------------
\* C11: a push whose device is not among the known devices when it is
\* processed sends no request, and its entry is still erased from the update
\* queue, after which the worker goes on to l.97.
UnknownDevicePushSkipped ==
  [][\A t \in Threads :
       /\ (PushStarts(t) /\ update[t][1] \notin m_devices) => pushLog' = <<>>
       /\ (pc[t] = "eraseUpdate" /\ pc'[t] # "eraseUpdate")
            => /\ m_updateQueue # <<>>
               /\ Head(m_updateQueue) = update[t]
               /\ m_updateQueue' = Tail(m_updateQueue)
               /\ pc'[t] = "timeLeft"
    ]_vars

\* the push of an unknown device has been processed and is about to be erased
UnknownDevicePushDone ==
  \E t \in Threads :
    /\ pc[t] = "eraseUpdate"
    /\ update[t][1] \notin m_devices
    /\ m_updateQueue # <<>>
    /\ pushLog = <<>>

\* C12: every step of a worker thread that reads or changes the request
\* queue, the update queue or the deadline (copies one of them into a local,
\* or changes a queue) is taken under CLockObject lock(m_mutex); the callers
\* hold it for their whole body (l.197, l.212).
SharedStateOnlyUnderMutex ==
  [][\A t \in Threads :
       (/\ pc[t] # "idle"
        /\ pc'[t] # pc[t]
        /\ \/ m_requestQueue' # m_requestQueue
           \/ m_updateQueue' # m_updateQueue
           \/ request'[t] # request[t]
           \/ update'[t] # update[t]
           \/ (pc[t] # "wait" /\ waitLeft'[t] # waitLeft[t]))
       => pc[t] \in LockedLocations
    ]_vars

\* C13: the worker never holds the mutex while a pull or a push is about to
\* run or is running, so a caller is never kept out by it: with calls left,
\* GetFeatures can be taken.
WorkerIOOutsideMutex ==
  \A t \in Threads :
    pc[t] \in {"request", "fetch", "update"} =>
      /\ m_mutex # t
      /\ ncalls < MaxCalls => \A d \in Devices : ENABLED GetFeatures(d)

\* a pull is in flight and a caller has appended an entry behind it
EnqueueDuringPull ==
  \E t \in Threads :
    /\ pc[t] = "fetch"
    /\ Len(m_requestQueue) = 2
    /\ lastCall.op = "GetFeatures"
    /\ lastCall.appended
    /\ m_mutex = 0

\* C14: every GetFeatures call and every accepted MapFeature call signals
\* m_idleEvent, also when it appends nothing.
EveryEnqueueSignals ==
  [][(CallStep /\ (lastCall'.op = "GetFeatures" \/ lastCall'.accepted))
       => m_idleEvent']_vars

\* C15: MapFeature returns false in every case and, when the edit is
\* rejected, changes neither queue nor the deadline, signals nothing and
\* starts no thread; GetFeatures returns false in every case and changes
\* neither the update queue nor the deadline.
CallersReturnFalse ==
  [][CallStep =>
       /\ lastCall'.ret = FALSE
       /\ (lastCall'.op = "MapFeature" /\ ~lastCall'.accepted)
            => UNCHANGED <<m_requestQueue, m_updateQueue, m_updateTimeout,
                           m_idleEvent, pc, m_bRunning>>
       /\ lastCall'.op = "GetFeatures"
            => UNCHANGED <<m_updateQueue, m_updateTimeout>>
    ]_vars

\* an accepted MapFeature has returned, with its push queued
AcceptedMapFeatureReturned ==
  /\ lastCall.op = "MapFeature"
  /\ lastCall.accepted
  /\ lastCall.appended
  /\ ~lastCall.ret
  /\ m_updateQueue # <<>>

\* C16: one loop iteration performs at most one operation: a push starts
\* only in an iteration that has not processed a pull.
OneOperationPerIteration ==
  [][\A t \in Threads : PushStarts(t) => ~worked[t]]_vars

\* C17: a worker that has processed an entry and finds both queues empty at
\* l.97 does not enter the timed wait.
ExitWithoutWaitWhenDrained ==
  [][\A t \in Threads :
       (/\ pc[t] = "timeLeft"
        /\ worked[t]
        /\ m_requestQueue = <<>>
        /\ m_updateQueue = <<>>)
       => pc'[t] # "wait"
    ]_vars

\* C18: once the accepted edits have stopped and the deadline has elapsed,
\* every queued push is sent: no state has the deadline elapsed, a push
\* queued and no worker thread to send it.
QueuedPushSentAfterDeadline ==
  (m_updateQueue # <<>> /\ TimeLeft = 0) => \E t \in Threads : Active(t)

\* C19: every accepted edit of a known device reaches the remote: as long as
\* no push started since has picked it up, a push for its key is queued.
AcceptedEditHasQueuedPush ==
  \A job \in unsent :
    job[1] \in m_devices => Contains(m_updateQueue, job)

\* C20: the entry at the front of a queue is one the worker processes: what
\* the snapshot takes from a non-empty request queue, or from a non-empty
\* update queue whose deadline has elapsed, passes the IsValid test of l.81
\* and l.90.
FrontEntryIsProcessed ==
  [][\A t \in Threads :
       (pc[t] = "snapshot" /\ pc'[t] = "request") =>
          /\ m_requestQueue # <<>> => IsValid(request'[t])
          /\ (m_updateQueue # <<>> /\ TimeLeft = 0) => IsValid(update'[t][1])
    ]_vars

====
